---------------------------- MODULE Spec2Model ----------------------------
(***************************************************************************)
(* A model of agentpy's output module (src/agentpy/output.py): the        *)
(* DataDict result store, its equality, the combination of variables and  *)
(* parameters (arrange), and the save / load persistence layer.           *)
(*                                                                         *)
(* Text (keys, file names, directory names, column names, cells) is a     *)
(* sequence of one-character strings, so that the string operations of    *)
(* the source (in, split, replace, slicing, int(), f-strings) are         *)
(* computed as the source computes them.                                   *)
(***************************************************************************)
EXTENDS Integers, Sequences, FiniteSets, TLC

VARIABLES
    dirs,      \* the base path: directory name -> (file name -> file content)
    written,   \* the directories that a save of this run created
    saves,     \* number of save calls made so far (bounds the run)
    op,        \* the last save or load: its arguments, the error it raised,
               \* the store it wrote or returned, the keys (save) or files
               \* (load) it printed a diagnostic for, the keys json was tried on
    store,     \* the in-memory DataDict that arrange is called on
    call,      \* the last arrange / _combine_vars / _combine_pars call
    ret,       \* what that call returned
    cmp        \* the last comparison A == B: operands and outcomes

vars == <<dirs, written, saves, op, store, call, ret, cmp>>

(***************************************************************************)
(* Bounds of the model.                                                    *)
(***************************************************************************)
MaxSaves == 2
MaxId == 1
MaxIterations == 3
MaxRuns == 2

(***************************************************************************)
(* Text.                                                                   *)
(***************************************************************************)
Digits == <<"0", "1", "2", "3", "4", "5", "6", "7", "8", "9">>

IsDigit(c) == \E i \in 1..Len(Digits) : Digits[i] = c

DigitVal(c) == (CHOOSE i \in 1..Len(Digits) : Digits[i] = c) - 1

\* f'{n}' for a non-negative integer n
RECURSIVE StrOfInt(_)
StrOfInt(n) ==
    IF n < Len(Digits) THEN <<Digits[n + 1]>>
    ELSE StrOfInt(n \div Len(Digits)) \o <<Digits[(n % Len(Digits)) + 1]>>

\* the value of a string of decimal digits
RECURSIVE DigitsVal(_)
DigitsVal(s) ==
    IF s = <<>> THEN 0
    ELSE DigitsVal(SubSeq(s, 1, Len(s) - 1)) * Len(Digits) + DigitVal(s[Len(s)])

\* int(s): a value, or ValueError for anything but a non-empty digit string
IntOf(s) ==
    IF s # <<>> /\ \A i \in 1..Len(s) : IsDigit(s[i])
    THEN [ok |-> TRUE, n |-> DigitsVal(s)]
    ELSE [ok |-> FALSE, n |-> 0]

\* sub in s
Contains(sub, s) ==
    \E i \in 1..(Len(s) - Len(sub) + 1) : SubSeq(s, i, i + Len(sub) - 1) = sub

\* s.split(c)[-1]: what follows the last c (all of s when there is none)
SplitLast(s, c) ==
    LET at == {i \in 1..Len(s) : s[i] = c}
    IN  IF at = {} THEN s
        ELSE SubSeq(s, (CHOOSE i \in at : \A j \in at : j <= i) + 1, Len(s))

\* s.replace(old, new), old non-empty: every occurrence, left to right
RECURSIVE Replace(_, _, _)
Replace(s, old, new) ==
    IF Len(s) < Len(old) THEN s
    ELSE IF SubSeq(s, 1, Len(old)) = old
         THEN new \o Replace(SubSeq(s, Len(old) + 1, Len(s)), old, new)
         ELSE <<s[1]>> \o Replace(SubSeq(s, 2, Len(s)), old, new)

\* file.split(".")[-1]
Ext(file) == SplitLast(file, ".")

\* file[:-(len(ext) + 1)]
Stem(file) == SubSeq(file, 1, Len(file) - (Len(Ext(file)) + 1))


(***************************************************************************)
(* Python values held by a DataDict.                                       *)
(*   int, npint (a numpy integer), str, list, dict, attrdict (AttrDict),   *)
(*   object (anything json cannot encode), none, table (pandas.DataFrame), *)
(*   store (a nested DataDict).                                            *)
(* A DataDict is a function from keys to values.                           *)
(***************************************************************************)
PyInt(n) == [kind |-> "int", v |-> n]
NpInt(n) == [kind |-> "npint", v |-> n]
PyStr(s) == [kind |-> "str", v |-> s]
PyList(s) == [kind |-> "list", v |-> s]
PyDict(f) == [kind |-> "dict", v |-> f]
AttrDict(f) == [kind |-> "attrdict", v |-> f]
PyObject == [kind |-> "object"]
PyNone == [kind |-> "none"]
DataDict(f) == [kind |-> "store", v |-> f]

\* isinstance(x, dict): DataDict and AttrDict are dict subclasses
IsDict(x) == x.kind \in {"dict", "attrdict", "store"}

IsNumber(x) == x.kind \in {"int", "npint"}

(***************************************************************************)
(* A table: named index levels, named columns, rows of cells.  A table     *)
(* with the default positional index has no index level (index = <<>>).    *)
(***************************************************************************)
Table(index, cols, rows) ==
    [kind |-> "table", index |-> index, cols |-> cols, rows |-> rows]

Row(ix, v) == [ix |-> ix, v |-> v]

InSeq(x, s) == \E i \in 1..Len(s) : s[i] = x

Range(s) == {s[i] : i \in 1..Len(s)}

PosOf(x, s) == CHOOSE i \in 1..Len(s) : s[i] = x

\* the elements of s that satisfy membership in the set keep, in order
RECURSIVE Filter(_, _)
Filter(s, keep) ==
    IF s = <<>> THEN <<>>
    ELSE (IF s[1] \in keep THEN <<s[1]>> ELSE <<>>) \o Filter(Tail(s), keep)

(***************************************************************************)
(* json.dump(obj, fp, cls=NpEncoder) and json.load.  A JSON document is    *)
(* its syntax tree.                                                        *)
(***************************************************************************)
Json(j, v) == [j |-> j, v |-> v]

\* whether json can encode x (otherwise NpEncoder.default raises TypeError)
RECURSIVE Serializable(_)
Serializable(x) ==
    CASE x.kind \in {"int", "npint", "str", "none"} -> TRUE
      [] x.kind = "list" -> \A i \in 1..Len(x.v) : Serializable(x.v[i])
      [] IsDict(x) -> \A k \in DOMAIN x.v : Serializable(x.v[k])
      [] OTHER -> FALSE

RECURSIVE JsonOf(_)
JsonOf(x) ==
    CASE x.kind = "int" -> Json("num", x.v)
      [] x.kind = "npint" -> Json("num", x.v)
      [] x.kind = "str" -> Json("str", x.v)
      [] x.kind = "list" -> Json("arr", [i \in 1..Len(x.v) |-> JsonOf(x.v[i])])
      [] IsDict(x) -> Json("obj", [k \in DOMAIN x.v |-> JsonOf(x.v[k])])
      [] OTHER -> Json("null", <<>>)

RECURSIVE PyOfJson(_)
PyOfJson(d) ==
    CASE d.j = "num" -> PyInt(d.v)
      [] d.j = "str" -> PyStr(d.v)
      [] d.j = "arr" -> PyList([i \in 1..Len(d.v) |-> PyOfJson(d.v[i])])
      [] d.j = "obj" -> PyDict([k \in DOMAIN d.v |-> PyOfJson(d.v[k])])
      [] OTHER -> PyNone

(***************************************************************************)
(* Files.  A .csv file is its lines of fields, a .json file its document;  *)
(* raw is content that is neither (truncated or foreign).                  *)
(***************************************************************************)
CsvFile(header, lines) == [fmt |-> "csv", header |-> header, lines |-> lines]
JsonFile(doc) == [fmt |-> "json", doc |-> doc]
RawFile == [fmt |-> "raw"]

Unnamed(i) == <<"U", "n", "n", "a", "m", "e", "d", ":", " ">> \o StrOfInt(i)

\* DataFrame.to_csv: the index levels are written as leading columns; the
\* default positional index is written under an empty header
to_csv(df) ==
    IF df.index = <<>>
    THEN CsvFile(<<<<>>>> \o df.cols,
                 [i \in 1..Len(df.rows) |-> <<StrOfInt(i - 1)>> \o df.rows[i].v])
    ELSE CsvFile(df.index \o df.cols,
                 [i \in 1..Len(df.rows) |-> df.rows[i].ix \o df.rows[i].v])

\* pd.read_csv: every field of the header is a column (an empty one is
\* named Unnamed: <position>), the index is positional
read_csv(f) ==
    Table(<<>>,
          [i \in 1..Len(f.header) |->
              IF f.header[i] = <<>> THEN Unnamed(i - 1) ELSE f.header[i]],
          [i \in 1..Len(f.lines) |-> Row(<<>>, f.lines[i])])

\* the cells of a row under the given names, for a table whose index is
\* positional
Cells(df, r, names) == [i \in 1..Len(names) |-> r.v[PosOf(names[i], df.cols)]]

\* df.set_index(names), for a table whose index is positional
set_index(df, names) ==
    LET rest == Filter(df.cols, Range(df.cols) \ Range(names))
    IN  Table(names, rest,
              [i \in 1..Len(df.rows) |->
                  Row(Cells(df, df.rows[i], names), Cells(df, df.rows[i], rest))])

kIndex == <<"i", "n", "d", "e", "x">>
kLevel0 == <<"l", "e", "v", "e", "l", "_", "0">>

\* df.reset_index(): the index levels become leading columns; the
\* positional index becomes the column index (level_0 when index is taken)
reset_index(df) ==
    IF df.index = <<>>
    THEN Table(<<>>,
               <<IF InSeq(kIndex, df.cols) THEN kLevel0 ELSE kIndex>> \o df.cols,
               [i \in 1..Len(df.rows) |-> Row(<<>>, <<StrOfInt(i - 1)>> \o df.rows[i].v)])
    ELSE Table(<<>>, df.index \o df.cols,
               [i \in 1..Len(df.rows) |-> Row(<<>>, df.rows[i].ix \o df.rows[i].v)])

\* reset_index raises ValueError when a column has the name of a level
reset_index_raises(df) ==
    IF df.index = <<>> THEN InSeq(kIndex, df.cols) /\ InSeq(kLevel0, df.cols)
    ELSE \E i \in 1..Len(df.index) : InSeq(df.index[i], df.cols)

i_cols ==
    << <<"s", "a", "m", "p", "l", "e", "_", "i", "d">>,
       <<"r", "u", "n", "_", "i", "d">>,
       <<"s", "c", "e", "n", "a", "r", "i", "o">>,
       <<"e", "n", "v", "_", "k", "e", "y">>,
       <<"a", "g", "e", "n", "t", "_", "i", "d">>,
       <<"o", "b", "j", "_", "i", "d">>,
       <<"t">> >>

csv == <<"c", "s", "v">>
json == <<"j", "s", "o", "n">>

\* load_file: the loaded object, or None after a reported error
load_file(file, content) ==
    LET ext == Ext(file)
    IN  IF ext = csv /\ content.fmt = "csv"
        THEN LET obj == read_csv(content)
                 index == Filter(i_cols, Range(obj.cols))
             IN  IF index # <<>> THEN set_index(obj, index) ELSE obj
        ELSE IF ext = json /\ content.fmt = "json"
        THEN LET obj == PyOfJson(content.doc)
             IN  IF obj.kind = "dict" THEN AttrDict(obj.v) ELSE obj
        ELSE PyNone

\* whether load_file reports an error for the file
load_fails(file, content) ==
    ~ \/ Ext(file) = csv /\ content.fmt = "csv"
      \/ Ext(file) = json /\ content.fmt = "json"

(***************************************************************************)
(* Equality.                                                               *)
(***************************************************************************)
\* the index values of a table; the positional index counts from 0
IndexValues(df) ==
    [i \in 1..Len(df.rows) |->
        IF df.index = <<>> THEN <<StrOfInt(i - 1)>> ELSE df.rows[i].ix]

\* DataFrame.equals: same column labels, same index values, same cells (the
\* names of the index levels are not compared)
equals(a, b) ==
    /\ b.kind = "table"
    /\ a.cols = b.cols
    /\ IndexValues(a) = IndexValues(b)
    /\ [i \in 1..Len(a.rows) |-> a.rows[i].v] = [i \in 1..Len(b.rows) |-> b.rows[i].v]

\* a == b for values that are neither tables nor DataDicts
RECURSIVE ValueEq(_, _)
ValueEq(a, b) ==
    CASE IsNumber(a) /\ IsNumber(b) -> a.v = b.v
      [] a.kind = "str" /\ b.kind = "str" -> a.v = b.v
      [] a.kind = "list" /\ b.kind = "list" ->
            /\ Len(a.v) = Len(b.v)
            /\ \A i \in 1..Len(a.v) : ValueEq(a.v[i], b.v[i])
      [] a.kind \in {"dict", "attrdict"} /\ b.kind \in {"dict", "attrdict"} ->
            /\ DOMAIN a.v = DOMAIN b.v
            /\ \A k \in DOMAIN a.v : ValueEq(a.v[k], b.v[k])
      [] a.kind = "none" /\ b.kind = "none" -> TRUE
      [] a.kind = "object" /\ b.kind = "object" -> TRUE
      [] OTHER -> FALSE

\* DataDict.__eq__(self, other) for a DataDict other: the outcomes it can
\* have, "True", "False" or "ValueError" (the truth value of the table that
\* comparing a value with a table gives).  The loop ends at the first key
\* that decides, in the insertion order of self.
RECURSIVE eq(_, _)
eq(self, other) ==
    LET at(key) ==
            IF key \notin DOMAIN other THEN {"False"}
            ELSE IF self[key].kind = "table"
            THEN (IF equals(self[key], other[key]) THEN {"True"} ELSE {"False"})
            ELSE IF self[key].kind = "store"
            THEN (IF other[key].kind = "store"
                  THEN eq(self[key].v, other[key].v) ELSE {"False"})
            ELSE IF other[key].kind = "table" THEN {"ValueError"}
            ELSE IF other[key].kind = "store" THEN {"False"}
            ELSE IF ValueEq(self[key], other[key]) THEN {"True"} ELSE {"False"}
        ends == UNION {at(key) : key \in DOMAIN self} \ {"True"}
    IN  IF \A key \in DOMAIN self : at(key) = {"True"} THEN {"True"} ELSE ends

(***************************************************************************)
(* Optional arguments.                                                     *)
(***************************************************************************)
None == [some |-> FALSE]
Some(x) == [some |-> TRUE, v |-> x]

kLog == <<"l", "o", "g">>
kName == <<"n", "a", "m", "e">>
kVariables == <<"v", "a", "r", "i", "a", "b", "l", "e", "s">>
kParameters == <<"p", "a", "r", "a", "m", "e", "t", "e", "r", "s">>
kMeasures == <<"m", "e", "a", "s", "u", "r", "e", "s">>
Unnamed_ == <<"U", "n", "n", "a", "m", "e", "d">>

(***************************************************************************)
(* _last_exp_id(name, path): the highest id among the entries of the base  *)
(* path whose name contains `name`; ValueError when the text after the     *)
(* last underscore of one of them is not a number.                         *)
(***************************************************************************)
SetMax(ns) == CHOOSE n \in ns : \A m \in ns : m <= n

\* [s for s in output_dirs if s == name]
exp_dirs_equal(name, output_dirs) == {s \in output_dirs : s = name}

\* [s for s in output_dirs if name in s]
exp_dirs(name, output_dirs) == {s \in output_dirs : Contains(name, s)}

last_exp_id(name, output_dirs) ==
    LET ids == {IntOf(SplitLast(s, "_")) : s \in exp_dirs(name, output_dirs)}
    IN  IF \E r \in ids : ~r.ok THEN [ok |-> FALSE, n |-> 0]
        ELSE IF ids = {} THEN [ok |-> TRUE, n |-> 0]
        ELSE [ok |-> TRUE, n |-> SetMax({r.n : r \in ids})]

\* f'{exp_name}_{exp_id}' under the base path
DirName(exp_name, exp_id) == exp_name \o <<"_">> \o StrOfInt(exp_id)

(***************************************************************************)
(* save: what the loop over the entries writes.                            *)
(***************************************************************************)
KeyFile(key, ext) == key \o <<".">> \o ext

InnerFile(key, k, ext) == key \o <<"_">> \o k \o <<".">> \o ext

\* the file an inner entry of a nested store is written to, if any: a table
\* as csv, a dict as json, anything else is not written
InnerFiles(key, output, ks) ==
    {<<InnerFile(key, k, csv), to_csv(output[k])>> :
        k \in {k \in ks : output[k].kind = "table"}}
    \cup
    {<<InnerFile(key, k, json), JsonFile(JsonOf(output[k]))>> :
        k \in {k \in ks : IsDict(output[k])}}

\* the inner entries whose json.dump raises: no handler surrounds it
InnerRaises(output) ==
    {k \in DOMAIN output : IsDict(output[k]) /\ ~Serializable(output[k])}

\* the second test is an `if`, not an `elif`: a table falls into its else
\* branch as well
JsonAttempted(output) == output.kind # "store"

JsonWarned(output) == JsonAttempted(output) /\ ~Serializable(output)

\* the files one top-level entry leaves behind
EntryFiles(key, output) ==
    (IF output.kind = "table"
     THEN {<<KeyFile(key, csv), to_csv(output)>>} ELSE {})
    \cup
    (IF output.kind = "store"
     THEN InnerFiles(key, output.v, DOMAIN output.v)
     ELSE IF JsonWarned(output) THEN {}
     ELSE {<<KeyFile(key, json), JsonFile(JsonOf(output))>>})

AsFiles(pairs) ==
    [f \in {p[1] : p \in pairs} |-> (CHOOSE p \in pairs : p[1] = f)[2]]

RaisingKeys(S) ==
    {key \in DOMAIN S : S[key].kind = "store" /\ InnerRaises(S[key].v) # {}}

\* the directory after a save that ran to its end
SavedFiles(S) == AsFiles(UNION {EntryFiles(key, S[key]) : key \in DOMAIN S})

\* the directories a save can leave when json.dump raises inside the nested
\* store `key`, at its inner entry k: the entries before it are written
\* (the order is the store's insertion order), k is left truncated
AbortedFiles(S, key, k, done, inner) ==
    AsFiles(UNION {EntryFiles(d, S[d]) : d \in done}
            \cup InnerFiles(key, S[key].v, inner)
            \cup {<<InnerFile(key, k, json), RawFile>>})

(***************************************************************************)
(* _load: the loop over the files of the directory.  os.listdir gives the  *)
(* files in no particular order, so when several files are stored under    *)
(* one key any of them may be the last one, which is the one that stays.   *)
(***************************************************************************)
variables_ == kVariables \o <<"_">>
parameters_ == kParameters \o <<"_">>

VarFiles(files) == {f \in DOMAIN files : Contains(variables_, f)}

ParFiles(files) ==
    {f \in DOMAIN files \ VarFiles(files) : Contains(parameters_, f)}

TopFiles(files) == DOMAIN files \ (VarFiles(files) \cup ParFiles(files))

\* the key a file is stored under, inside the bucket its name selects
FileKey(f) ==
    IF Contains(variables_, f) THEN Replace(Stem(f), variables_, <<>>)
    ELSE IF Contains(parameters_, f) THEN Replace(Stem(f), parameters_, <<>>)
    ELSE Stem(f)

\* the mappings the loop can build from the files G: each key holds what
\* load_file returned for one of the files stored under it
Loaded(files, G) ==
    LET keys == {FileKey(f) : f \in G}
        lasts == {g \in [keys -> G] : \A k \in keys : FileKey(g[k]) = k}
    IN  {[k \in keys |-> load_file(g[k], files[g[k]])] : g \in lasts}

\* self['variables'][key] = ... on an entry that a file named variables.*
\* made a table (or None) is left out of the model: no save writes both
Loadable(files) ==
    /\ VarFiles(files) # {} => kVariables \notin {FileKey(f) : f \in TopFiles(files)}
    /\ ParFiles(files) # {} => kParameters \notin {FileKey(f) : f \in TopFiles(files)}

LoadResults(files) ==
    {[k \in DOMAIN top
           \cup (IF VarFiles(files) # {} THEN {kVariables} ELSE {})
           \cup (IF ParFiles(files) # {} THEN {kParameters} ELSE {}) |->
        IF k = kVariables /\ VarFiles(files) # {} THEN DataDict(var)
        ELSE IF k = kParameters /\ ParFiles(files) # {} THEN DataDict(par)
        ELSE top[k]] :
     top \in Loaded(files, TopFiles(files)),
     var \in Loaded(files, VarFiles(files)),
     par \in Loaded(files, ParFiles(files))}

(***************************************************************************)
(* The stores that are saved, and the directories the base path starts     *)
(* with.                                                                   *)
(***************************************************************************)
t == <<"t">>
run_id == <<"r", "u", "n", "_", "i", "d">>
obj_id == <<"o", "b", "j", "_", "i", "d">>
kIterations == <<"i", "t", "e", "r", "a", "t", "i", "o", "n", "s">>
kModelType == <<"m", "o", "d", "e", "l", "_", "t", "y", "p", "e">>
kFixed == <<"f", "i", "x", "e", "d">>
kVaried == <<"v", "a", "r", "i", "e", "d">>
Agent == <<"A", "g", "e", "n", "t">>
Model == <<"M", "o", "d", "e", "l">>
Env == <<"E", "n", "v">>

\* a whole result: log, fixed parameters holding a numpy integer, variables
\* per object type, measures indexed by run_id
StoreResult ==
    (kLog :> PyDict(kName :> PyStr(<<"a", " ", "b">>)))
    @@ (kParameters :> PyDict(<<"x">> :> NpInt(1)))
    @@ (kVariables :> DataDict(
        (Agent :> Table(<<obj_id, t>>, <<<<"x">>>>,
                        <<Row(<<<<"1">>, <<"0">>>>, <<<<"7">>>>)>>))
        @@ (Model :> Table(<<t>>, <<<<"y">>>>, <<Row(<<<<"0">>>>, <<<<"8">>>>)>>))))
    @@ (kMeasures :> Table(<<run_id>>, <<<<"f">>>>, <<Row(<<<<"0">>>>, <<<<"5">>>>)>>))

\* fixed and varied parameters; the varied table has the positional index
StoreParameters ==
    kParameters :> DataDict(
        (kFixed :> PyDict(<<"x">> :> PyInt(1)))
        @@ (kVaried :> Table(<<>>, <<<<"y">>>>,
                             <<Row(<<>>, <<<<"3">>>>), Row(<<>>, <<<<"4">>>>)>>)))

\* a nested store under a key of its own, holding a scalar and a table
StoreInfo ==
    <<"i", "n", "f", "o">> :> DataDict(
        (<<"n">> :> PyInt(3))
        @@ (<<"d">> :> Table(<<t>>, <<<<"x">>>>, <<Row(<<<<"0">>>>, <<<<"1">>>>)>>)))

\* an entry json cannot encode, beside a list
StoreObject ==
    (<<"x">> :> PyObject)
    @@ (<<"k">> :> PyList(<<PyInt(1), PyInt(2)>>))

\* a nested store whose inner dict json cannot encode
StoreRaises ==
    (kVariables :> DataDict(<<"d">> :> PyDict(<<"z">> :> PyObject)))
    @@ (<<"k">> :> PyInt(1))

Stores ==
    {StoreResult, StoreParameters, StoreInfo, StoreObject, StoreRaises}

Names == {<<"a">>, <<"a", " ", "b">>, Unnamed_}

\* directories found under the base path before the first call: an
\* experiment a_1 holding a text file and a truncated json file beside its
\* data, an experiment ab_<MaxId + 1>, and a directory that is no experiment
OldDirs ==
    (DirName(<<"a">>, 1) :>
        ((KeyFile(<<"x">>, csv) :> CsvFile(<<t, <<"x">>>>, <<<<<<"0">>, <<"1">>>>>>))
         @@ (KeyFile(<<"x">>, <<"t", "x", "t">>) :> RawFile)
         @@ (KeyFile(<<"b">>, json) :> RawFile)
         @@ (KeyFile(<<"k">>, json) :> JsonFile(Json("num", 1)))))
    @@ (DirName(<<"a", "b">>, MaxId + 1) :>
        ((KeyFile(<<"k">>, json) :> JsonFile(Json("num", 1)))))
    @@ (<<"t", "a", "b">> :> <<>>)

\* the base path is empty, or holds some of the experiments, or all of the
\* directories
OldSets ==
    SUBSET {DirName(<<"a">>, 1), DirName(<<"a", "b">>, MaxId + 1)}
    \cup {DOMAIN OldDirs}

Restrict(f, D) == [x \in D |-> f[x]]

Put(f, x, y) == [z \in DOMAIN f \cup {x} |-> IF z = x THEN y ELSE f[z]]

NoStore == <<>>

Op(fn, name, given, id, err, dir, S, warned, tried) ==
    [fn |-> fn, name |-> name, given |-> given, id |-> id, err |-> err,
     dir |-> dir, S |-> S, warned |-> warned, tried |-> tried]

NoOp == Op("init", <<>>, FALSE, 0, "", <<>>, NoStore, {}, {})

NoCall == [fn |-> "none"]

NoCmp == [done |-> FALSE]

(***************************************************************************)
(* save(exp_name, exp_id), path and display left at their defaults.        *)
(***************************************************************************)
\* makedirs(path, exist_ok=True) raises nothing
makedirs_exist_ok(path, existing) == FALSE

\* makedirs(path) raises FileExistsError when the directory exists
makedirs_raises(path, existing) == path \in existing

SaveName(S, exp_name) ==
    Replace(IF exp_name.some THEN exp_name.v
            ELSE IF /\ kLog \in DOMAIN S
                    /\ IsDict(S[kLog])
                    /\ kName \in DOMAIN S[kLog].v
                 THEN S[kLog].v[kName].v
                 ELSE Unnamed_,
            <<" ">>, <<"_">>)

Save(exp_name, exp_id) ==
    LET S == store
        name == SaveName(S, exp_name)
        last == last_exp_id(name, DOMAIN dirs)
        id == IF exp_id.some THEN exp_id.v ELSE last.n + 1
        dir == DirName(name, id)
        raised(err) == Op("save", name, exp_id.some, id, err, dir, NoStore, {}, {})
    IN  /\ saves < MaxSaves
        /\ saves' = saves + 1
        /\ UNCHANGED <<store, call, ret, cmp>>
        /\ IF ~exp_id.some /\ ~last.ok
           THEN \* int() in _last_exp_id
                /\ op' = raised("ValueError")
                /\ UNCHANGED <<dirs, written>>
           ELSE IF makedirs_raises(dir, DOMAIN dirs)
           THEN \* makedirs(path)
                /\ op' = raised("FileExistsError")
                /\ UNCHANGED <<dirs, written>>
           ELSE IF RaisingKeys(S) # {}
           THEN \E key \in RaisingKeys(S) :
                \E k \in InnerRaises(S[key].v) :
                \E done \in SUBSET (DOMAIN S \ {key}) :
                \E inner \in SUBSET (DOMAIN S[key].v \ {k}) :
                    /\ dirs' = Put(dirs, dir, AbortedFiles(S, key, k, done, inner))
                    /\ written' = written \cup {dir}
                    /\ op' = Op("save", name, exp_id.some, id, "TypeError", dir, S,
                                {d \in done : JsonWarned(S[d])},
                                {d \in done : JsonAttempted(S[d])})
           ELSE /\ dirs' = Put(dirs, dir, SavedFiles(S))
                /\ written' = written \cup {dir}
                /\ op' = Op("save", name, exp_id.some, id, "", dir, S,
                            {d \in DOMAIN S : JsonWarned(S[d])},
                            {d \in DOMAIN S : JsonAttempted(S[d])})

(***************************************************************************)
(* load(exp_name, exp_id) on a fresh DataDict, exp_name given.             *)
(***************************************************************************)
Load(exp_name, exp_id) ==
    LET name == Replace(exp_name, <<" ">>, <<"_">>)
        given == exp_id.some /\ exp_id.v # 0
        last == last_exp_id(name, DOMAIN dirs)
        id == IF given THEN exp_id.v ELSE last.n
        dir == DirName(name, id)
        raised(err) == Op("load", name, given, id, err, dir, NoStore, {}, {})
    IN  /\ UNCHANGED <<dirs, written, saves, store, call, ret, cmp>>
        /\ IF ~given /\ ~last.ok
           THEN op' = raised("ValueError")
           ELSE IF ~given /\ last.n = 0
           THEN op' = raised("FileNotFoundError")
           ELSE IF dir \notin DOMAIN dirs
           THEN \* listdir(path)
                op' = raised("FileNotFoundError")
           ELSE /\ Loadable(dirs[dir])
                /\ \E S \in LoadResults(dirs[dir]) :
                      op' = Op("load", name, given, id, "", dir, S,
                               {f \in DOMAIN dirs[dir] : load_fails(f, dirs[dir][f])},
                               {})

NameArgs == {None, Some(<<"a">>)}

IdArgs == {None} \cup {Some(i) : i \in 1..MaxId}

Init ==
    /\ dirs \in {Restrict(OldDirs, D) : D \in OldSets}
    /\ written = {}
    /\ saves = 0
    /\ op = NoOp
    /\ store \in Stores
    /\ call = NoCall
    /\ ret = PyNone
    /\ cmp = NoCmp

Next ==
    \/ \E exp_name \in NameArgs, exp_id \in IdArgs : Save(exp_name, exp_id)
    \/ \E exp_name \in Names, exp_id \in IdArgs : Load(exp_name, exp_id)

Spec == Init /\ [][Next]_vars

(***************************************************************************)
(* Tables in arrange.                                                      *)
(***************************************************************************)
obj_type == <<"o", "b", "j", "_", "t", "y", "p", "e">>
scenario == <<"s", "c", "e", "n", "a", "r", "i", "o">>
kAll == <<"a", "l", "l">>
NaN == <<"N", "a", "N">>
NoName == <<>>

Err(e) == [kind |-> "error", err |-> e]

\* a call's outcome: the value it returns (a table, None or an error), the
\* store after it, and the place in the store of the table the value is
\* (<<>> when the value is a new object)
Out(val, st, alias) == [val |-> val, st |-> st, alias |-> alias]

\* the order in which the stores of the model were filled: Python dicts,
\* and so DataDicts, iterate in insertion order
KeyOrder ==
    <<kLog, kParameters, kVariables, kMeasures, kFixed, kVaried,
      Agent, Env, Model, <<"p">>, <<"q">>>>

Ordered(keys) == Filter(KeyOrder, keys)

\* the names of the index levels; the positional index is one unnamed level
LevelNames(df) == IF df.index = <<>> THEN <<NoName>> ELSE df.index

\* df[names]: the columns named, KeyError when one is missing
Selectable(df, names) == \A i \in 1..Len(names) : InSeq(names[i], df.cols)

Select(df, names) ==
    Table(df.index, names,
          [i \in 1..Len(df.rows) |-> Row(df.rows[i].ix, Cells(df, df.rows[i], names))])

\* df[k] = cell, in place: a new last column, or new cells in column k
SetColumn(df, k, cell) ==
    IF InSeq(k, df.cols)
    THEN Table(df.index, df.cols,
               [i \in 1..Len(df.rows) |->
                   Row(df.rows[i].ix,
                       [j \in 1..Len(df.cols) |->
                           IF df.cols[j] = k THEN cell ELSE df.rows[i].v[j]])])
    ELSE Table(df.index, Append(df.cols, k),
               [i \in 1..Len(df.rows) |-> Row(df.rows[i].ix, Append(df.rows[i].v, cell))])

\* the cell of a row under a column, NaN when the table lacks the column
CellOr(df, r, c) == IF InSeq(c, df.cols) THEN r.v[PosOf(c, df.cols)] ELSE NaN

\* the columns of the tables, each once, in the order they first appear
RECURSIVE UnionCols(_)
UnionCols(dfs) ==
    IF dfs = <<>> THEN <<>>
    ELSE LET before == UnionCols(SubSeq(dfs, 1, Len(dfs) - 1))
             last == dfs[Len(dfs)]
         IN  before \o Filter(last.cols, Range(last.cols) \ Range(before))

\* the rows of the tables stacked, under the columns cols; with keys, each
\* row's index starts with the key of its table
RECURSIVE StackRows(_, _, _)
StackRows(dfs, keys, cols) ==
    IF dfs = <<>> THEN <<>>
    ELSE LET last == dfs[Len(dfs)]
             lead == IF keys = <<>> THEN <<>> ELSE <<keys[Len(keys)]>>
         IN  StackRows(SubSeq(dfs, 1, Len(dfs) - 1),
                       IF keys = <<>> THEN <<>> ELSE SubSeq(keys, 1, Len(keys) - 1),
                       cols)
             \o [i \in 1..Len(last.rows) |->
                    Row(lead \o IndexValues(last)[i],
                        [j \in 1..Len(cols) |-> CellOr(last, last.rows[i], cols[j])])]

\* pd.concat(df_dict) and the renaming of its new first level to obj_type;
\* AssertionError when the indexes differ in their number of levels.  The
\* tables of one store name their levels alike when they have as many.
concat_raises(df_dict, keys) ==
    \E a, b \in Range(keys) :
        Len(LevelNames(df_dict[a])) # Len(LevelNames(df_dict[b]))

concat(df_dict, keys) ==
    LET dfs == [i \in 1..Len(keys) |-> df_dict[keys[i]]]
        cols == UnionCols(dfs)
    IN  Table(<<obj_type>> \o LevelNames(dfs[1]), cols, StackRows(dfs, keys, cols))

\* indexes.append('obj_id'): after the last name
insert_obj_id_last(indexes) == Append(indexes, obj_id)

\* indexes.insert(-1, 'obj_id'): before the last name
insert_obj_id(indexes) ==
    SubSeq(indexes, 1, Len(indexes) - 1) \o <<obj_id>>
    \o SubSeq(indexes, Len(indexes), Len(indexes))

(***************************************************************************)
(* Selectors: None, 'all' (the literal of the source, or an equal string   *)
(* that is another object), a keyword, or a list of names.                 *)
(***************************************************************************)
NoSel == [sel |-> "none"]
All == [sel |-> "all"]
AllCopy == [sel |-> "all_copy"]
Sel(names) == [sel |-> "names", names |-> names]

\* x != 'all'
NotAll(x) == x.sel \notin {"all", "all_copy"}

\* make_list(x)
make_list(x) == IF x.sel = "names" THEN x.names ELSE <<kAll>>

(***************************************************************************)
(* _combine_vars(obj_types, var_keys)                                      *)
(***************************************************************************)
\* self.log[key]: the value, or the error the access raises
LogHas(self, key) ==
    /\ kLog \in DOMAIN self
    /\ IsDict(self[kLog])
    /\ key \in DOMAIN self[kLog].v

WithEntry(self, key, k, df) ==
    [self EXCEPT ![key] = [@ EXCEPT !.v = [@ EXCEPT ![k] = df]]]

combine_vars(self, obj_types, var_keys) ==
    IF kVariables \notin DOMAIN self THEN Out(PyNone, self, <<>>)
    ELSE
    LET vs == self[kVariables] IN
    IF vs.kind = "table" THEN Out(vs, self, <<kVariables>>)
    ELSE IF vs.kind = "store" /\ Cardinality(DOMAIN vs.v) = 1
    THEN LET k == CHOOSE k \in DOMAIN vs.v : TRUE
         IN  Out(vs.v[k], self, <<kVariables, k>>)
    ELSE IF ~IsDict(vs) THEN Out(Err("TypeError"), self, <<>>)
    ELSE
    LET by_vars == IF NotAll(var_keys)
                   THEN {k \in DOMAIN vs.v :
                            \E x \in Range(make_list(var_keys)) : InSeq(x, vs.v[k].cols)}
                   ELSE DOMAIN vs.v
        kept == IF NotAll(obj_types)
                THEN {k \in by_vars : k \in Range(make_list(obj_types))}
                ELSE by_vars
    IN
    IF kLog \notin DOMAIN self THEN Out(Err("AttributeError"), self, <<>>)
    ELSE IF ~LogHas(self, kModelType) THEN Out(Err("KeyError"), self, <<>>)
    ELSE
    LET model_type == self[kLog].v[kModelType].v
        stored == vs.v[model_type]
        \* df['obj_id'] = 0 on the table the store holds
        df == SetColumn(stored, obj_id, <<"0">>)
        st == IF model_type \in kept THEN WithEntry(self, kVariables, model_type, df)
              ELSE self
    IN
    IF model_type \in kept /\ stored.index = <<>>
    THEN Out(Err("KeyError"), st, <<>>)
    ELSE IF model_type \in kept /\ reset_index_raises(df)
    THEN Out(Err("ValueError"), st, <<>>)
    ELSE
    LET df_dict == [k \in kept |->
                       IF k = model_type
                       THEN set_index(reset_index(df), insert_obj_id(stored.index))
                       ELSE vs.v[k]]
        keys == Ordered(kept)
    IN
    IF kept = {} THEN Out(PyNone, st, <<>>)
    ELSE IF concat_raises(df_dict, keys) THEN Out(Err("AssertionError"), st, <<>>)
    ELSE IF NotAll(var_keys) /\ ~Selectable(concat(df_dict, keys), make_list(var_keys))
    THEN Out(Err("KeyError"), st, <<>>)
    ELSE Out(IF NotAll(var_keys)
             THEN Select(concat(df_dict, keys), make_list(var_keys))
             ELSE concat(df_dict, keys),
             st, <<>>)

(***************************************************************************)
(* _combine_pars(varied, fixed)                                            *)
(***************************************************************************)
\* the text of a parameter value in a cell
CellOf(x) == IF IsNumber(x) THEN StrOfInt(x.v) ELSE x.v

\* dfp[k] = v for the entries of a mapping, in its order
RECURSIVE SetColumns(_, _, _)
SetColumns(df, keys, d) ==
    IF keys = <<>> THEN df
    ELSE SetColumn(SetColumns(df, SubSeq(keys, 1, Len(keys) - 1), d),
                   keys[Len(keys)], CellOf(d[keys[Len(keys)]]))

\* cases 1 to 4: the parameter table before it is multiplied; None when
\* nothing was selected
pars_table(self, varied, fixed) ==
    LET p == self[kParameters] IN
    IF p.kind = "store"
    THEN IF \/ varied /\ kVaried \notin DOMAIN p.v
            \/ fixed /\ kFixed \notin DOMAIN p.v
         THEN Err("AttributeError")
         ELSE LET dfp == IF varied THEN p.v[kVaried] ELSE Table(<<>>, <<>>, <<>>)
              IN  IF fixed
                  THEN SetColumns(dfp, Ordered(DOMAIN p.v[kFixed].v), p.v[kFixed].v)
                  ELSE dfp
    ELSE IF IsDict(p)
    THEN IF fixed
         THEN Table(<<>>, Ordered(DOMAIN p.v),
                    IF DOMAIN p.v = {} THEN <<>>
                    ELSE <<Row(<<>>, [i \in 1..Len(Ordered(DOMAIN p.v)) |->
                                        CellOf(p.v[Ordered(DOMAIN p.v)[i]])])>>)
         ELSE PyNone
    ELSE IF p.kind = "table" THEN (IF varied THEN p ELSE PyNone)
    ELSE Err("TypeError")

\* the rows repeated row by row, each n times
RECURSIVE repeat_each(_, _)
repeat_each(rows, n) ==
    IF rows = <<>> THEN <<>>
    ELSE [i \in 1..n |-> rows[1]] \o repeat_each(Tail(rows), n)

\* pd.concat([dfp] * n): the rows of the whole table, n times over
RECURSIVE tile(_, _)
tile(rows, n) == IF n = 0 THEN <<>> ELSE rows \o tile(rows, n - 1)

\* dfp.reset_index(drop=True) and dfp.index.name = 'run_id'
new_run_id(cols, rows) ==
    Table(<<run_id>>, cols,
          [i \in 1..Len(rows) |-> Row(<<StrOfInt(i - 1)>>, rows[i].v)])

combine_pars(self, varied, fixed) ==
    IF kParameters \notin DOMAIN self THEN PyNone
    ELSE
    LET dfp == pars_table(self, varied, fixed) IN
    IF dfp.kind # "table" THEN dfp
    ELSE IF dfp.cols = <<>> /\ dfp.rows = <<>> THEN PyNone
    ELSE IF kLog \notin DOMAIN self THEN Err("AttributeError")
    ELSE IF LogHas(self, kIterations) /\ self[kLog].v[kIterations].v > 1
    THEN new_run_id(dfp.cols, tile(dfp.rows, self[kLog].v[kIterations].v))
    ELSE new_run_id(dfp.cols, dfp.rows)

(***************************************************************************)
(* arrange(variables, measures, parameters, obj_types, scenarios, index)   *)
(***************************************************************************)
IsErr(x) == x.kind = "error"

\* step 2: self.measures, and dfm[make_list(measures)] unless measures is
\* the very object 'all'
with_measures(st, measures) ==
    IF measures.sel = "none" THEN Out(PyNone, st, <<>>)
    ELSE IF kMeasures \notin DOMAIN st THEN Out(Err("AttributeError"), st, <<>>)
    ELSE IF measures.sel = "all" THEN Out(st[kMeasures], st, <<kMeasures>>)
    ELSE IF ~Selectable(st[kMeasures], make_list(measures))
    THEN Out(Err("KeyError"), st, <<>>)
    ELSE Out(Select(st[kMeasures], make_list(measures)), st, <<>>)

\* step 3: _combine_pars, and dfp[make_list(parameters)] for names
with_parameters(st, parameters) ==
    IF parameters.sel = "none" THEN PyNone
    ELSE LET dfp == combine_pars(st, parameters.sel # "static", parameters.sel # "varied")
         IN  IF parameters.sel # "names" \/ IsErr(dfp) THEN dfp
             ELSE IF dfp.kind = "none" THEN Err("TypeError")
             ELSE IF ~Selectable(dfp, make_list(parameters)) THEN Err("KeyError")
             ELSE Select(dfp, make_list(parameters))

\* step 4, first half: variables and measures
stack_tables(V, M) ==
    IF V.val.kind = "table" /\ M.val.kind = "table"
    THEN IF reset_index_raises(M.val) \/ reset_index_raises(V.val)
         THEN Out(Err("ValueError"), M.st, <<>>)
         ELSE LET dfs == <<reset_index(M.val), reset_index(V.val)>>
                  cols == UnionCols(dfs)
                  df == Table(<<>>, cols, StackRows(dfs, <<>>, cols))
              IN  IF ~Selectable(df, LevelNames(V.val))
                  THEN Out(Err("KeyError"), M.st, <<>>)
                  ELSE Out(set_index(df, LevelNames(V.val)), M.st, <<>>)
    ELSE IF V.val.kind = "table" THEN Out(V.val, M.st, V.alias)
    ELSE M

\* the row of dfp whose run_id is the label, as cells; NaN cells when none
ParCells(dfp, label) ==
    IF \E i \in 1..Len(dfp.rows) : dfp.rows[i].ix = <<label>>
    THEN dfp.rows[CHOOSE i \in 1..Len(dfp.rows) : dfp.rows[i].ix = <<label>>].v
    ELSE [j \in 1..Len(dfp.cols) |-> NaN]

\* pd.concat([df, dfp], axis=1) for a df with one index level: the labels
\* of df, then those only dfp has
join_labels(df, dfp) ==
    LET mine == IndexValues(df)
        theirs == IndexValues(dfp)
        more == SelectSeq(theirs, LAMBDA l : ~InSeq(l, mine))
        name == IF df.index = dfp.index THEN dfp.index ELSE <<NoName>>
    IN  Table(name, df.cols \o dfp.cols,
              [i \in 1..Len(mine) |->
                  Row(mine[i], df.rows[i].v \o ParCells(dfp, mine[i][1]))]
              \o [i \in 1..Len(more) |->
                  Row(more[i], [j \in 1..Len(df.cols) |-> NaN]
                               \o ParCells(dfp, more[i][1]))])

\* dfp.reindex(df.index, level='run_id') and pd.concat([df, dfp], axis=1)
join_level(df, dfp) ==
    LET at == PosOf(run_id, df.index)
    IN  Table(df.index, df.cols \o dfp.cols,
              [i \in 1..Len(df.rows) |->
                  Row(df.rows[i].ix, df.rows[i].v \o ParCells(dfp, df.rows[i].ix[at]))])

\* the store with the table at the place `alias` replaced
Stored(st, alias, df) ==
    IF alias = <<>> THEN st
    ELSE IF Len(alias) = 1 THEN [st EXCEPT ![alias[1]] = df]
    ELSE WithEntry(st, alias[1], alias[2], df)

\* step 4, second half: the parameters
add_parameters(D, dfp) ==
    IF dfp.kind # "table" THEN D
    ELSE IF D.val.kind # "table" THEN Out(dfp, D.st, <<>>)
    ELSE IF Len(dfp.rows) > 1
    THEN IF Len(D.val.index) > 1
         THEN IF ~InSeq(run_id, D.val.index) THEN Out(Err("KeyError"), D.st, <<>>)
              ELSE Out(join_level(D.val, dfp), D.st, <<>>)
         ELSE IF /\ \E i, j \in 1..Len(D.val.rows) :
                        i # j /\ IndexValues(D.val)[i] = IndexValues(D.val)[j]
                 /\ IndexValues(D.val) # IndexValues(dfp)
         THEN Out(Err("InvalidIndexError"), D.st, <<>>)
         ELSE Out(join_labels(D.val, dfp), D.st, <<>>)
    ELSE IF dfp.rows = <<>> THEN Out(Err("KeyError"), D.st, <<>>)
    ELSE \* df[k] = v[0] on df itself, which may be a table of the store
         LET df == SetColumns(D.val, dfp.cols,
                              [k \in Range(dfp.cols) |->
                                  PyStr(dfp.rows[1].v[PosOf(k, dfp.cols)])])
         IN  Out(df, Stored(D.st, D.alias, df), D.alias)

\* steps 5 and 6: the scenarios, and the index
scenarios_and_index(D, scenarios, index) ==
    IF D.val.kind # "table" THEN D
    ELSE LET df == D.val
             at == PosOf(scenario, df.index)
             sel == IF NotAll(scenarios) /\ InSeq(scenario, df.index)
                    THEN Table(df.index, df.cols,
                               SelectSeq(df.rows,
                                   LAMBDA r : InSeq(r.ix[at], make_list(scenarios))))
                    ELSE df
         IN  IF index THEN Out(sel, D.st, <<>>)
             ELSE IF reset_index_raises(sel) THEN Out(Err("ValueError"), D.st, <<>>)
             ELSE Out(reset_index(sel), D.st, <<>>)

arrange(self, variables, measures, parameters, obj_types, scenarios, index) ==
    LET V == IF variables.sel = "none" THEN Out(PyNone, self, <<>>)
             ELSE combine_vars(self, obj_types, variables)
    IN
    IF IsErr(V.val) THEN V
    ELSE
    LET M == with_measures(V.st, measures) IN
    IF IsErr(M.val) THEN M
    ELSE
    LET dfp == with_parameters(M.st, parameters) IN
    IF IsErr(dfp) THEN Out(dfp, M.st, <<>>)
    ELSE
    LET D == stack_tables(V, M) IN
    IF IsErr(D.val) THEN D
    ELSE
    LET E == add_parameters(D, dfp) IN
    IF IsErr(E.val) THEN E
    ELSE scenarios_and_index(E, scenarios, index)

(***************************************************************************)
(* The results arrange is called on.  The model type is Model; a table of  *)
(* an object type has the levels run_id, obj_id, t, the model's table has  *)
(* run_id, t, and each has one row for every run.                          *)
(***************************************************************************)
Log(k) ==
    PyDict(IF k = 0 THEN kModelType :> PyStr(Model)
           ELSE (kModelType :> PyStr(Model)) @@ (kIterations :> PyInt(k)))

ObjectRows(n) ==
    [r \in 1..n |-> Row(<<StrOfInt(r - 1), <<"1">>, <<"1">>>>, <<<<"7">>, StrOfInt(r)>>)]

AgentTable(n) == Table(<<run_id, obj_id, t>>, <<<<"x">>, <<"y">>>>, ObjectRows(n))

ModelTable(n) ==
    Table(<<run_id, t>>, <<<<"x">>>>,
          [r \in 1..n |-> Row(<<StrOfInt(r - 1), <<"1">>>>, <<<<"9">>>>)])

ScenarioTable ==
    Table(<<scenario, t>>, <<<<"x">>>>,
          <<Row(<<<<"s", "1">>, <<"1">>>>, <<<<"3">>>>),
            Row(<<<<"s", "2">>, <<"1">>>>, <<<<"4">>>>)>>)

MeasureTable(n) ==
    Table(<<run_id>>, <<<<"m">>>>,
          [r \in 1..n |-> Row(<<StrOfInt(r - 1)>>, <<StrOfInt(r + 4)>>)])

\* the sample of an experiment: one row of the parameter p for every run
VariedTable(n) ==
    Table(<<>>, <<<<"p">>>>, [r \in 1..n |-> Row(<<>>, <<StrOfInt(r)>>)])

\* one run of a model with scenarios, its parameters fixed
OneRun ==
    (kLog :> Log(0))
    @@ (kParameters :> PyDict(<<"p">> :> PyInt(1)))
    @@ (kVariables :> ScenarioTable)
    @@ (kMeasures :> MeasureTable(1))

\* one run that recorded the variables of its agents only
OneCategory ==
    (kLog :> Log(0))
    @@ (kParameters :> PyDict(<<"p">> :> PyInt(1)))
    @@ (kVariables :> DataDict(Agent :> AgentTable(1)))

\* an experiment of n runs, its variables per object type
Experiment(n) ==
    (kLog :> Log(0))
    @@ (kParameters :> VariedTable(n))
    @@ (kVariables :> DataDict((Agent :> AgentTable(n)) @@ (Model :> ModelTable(n))))
    @@ (kMeasures :> MeasureTable(n))

\* one run with three object types and no parameters: its tables have no
\* run_id level
ThreeTypes ==
    (kLog :> Log(0))
    @@ (kVariables :> DataDict(
        (Agent :> Table(<<obj_id, t>>, <<<<"x">>, <<"y">>>>,
                        <<Row(<<<<"1">>, <<"1">>>>, <<<<"7">>, <<"1">>>>),
                          Row(<<<<"2">>, <<"1">>>>, <<<<"7">>, <<"2">>>>)>>))
        @@ (Env :> Table(<<obj_id, t>>, <<<<"y">>, <<"z">>>>,
                         <<Row(<<<<"1">>, <<"1">>>>, <<<<"5">>, <<"6">>>>)>>))
        @@ (Model :> Table(<<t>>, <<<<"x">>>>,
                           <<Row(<<<<"1">>>>, <<<<"9">>>>),
                             Row(<<<<"2">>>>, <<<<"8">>>>)>>))))

\* an experiment of k iterations over a sample of n rows, before its runs
\* recorded anything
Sample(k, n) ==
    (kLog :> Log(k))
    @@ (kParameters :> DataDict((kFixed :> PyDict(<<"q">> :> PyInt(2)))
                                @@ (kVaried :> VariedTable(n))))

Results ==
    {OneRun, OneCategory, ThreeTypes}
    \cup {Experiment(n) : n \in 1..MaxRuns}
    \cup {Sample(k, n) : k \in 1..MaxIterations, n \in 1..MaxRuns}

VariableArgs == {NoSel, All, Sel(<<<<"x">>>>)}

MeasureArgs == {NoSel, All, AllCopy, Sel(<<<<"m">>>>)}

ParameterArgs == {NoSel, All, [sel |-> "varied"], [sel |-> "static"], Sel(<<<<"p">>>>)}

ObjTypeArgs == {All, Sel(<<Agent>>)}

ScenarioArgs == {All, Sel(<<<<"s", "1">>>>)}

Idle == call.fn = "none"

\* self.arrange(variables, measures, parameters, obj_types, scenarios, index)
Arrange(variables, measures, parameters, obj_types, scenarios, index) ==
    LET out == arrange(store, variables, measures, parameters, obj_types,
                       scenarios, index)
    IN  /\ Idle
        /\ call' = [fn |-> "arrange", self |-> store, variables |-> variables,
                    measures |-> measures, parameters |-> parameters,
                    obj_types |-> obj_types, scenarios |-> scenarios,
                    index |-> index]
        /\ ret' = out.val
        /\ store' = out.st
        /\ UNCHANGED <<dirs, written, saves, op, cmp>>

\* self._combine_vars(obj_types, var_keys)
CombineVars(obj_types, var_keys) ==
    LET out == combine_vars(store, obj_types, var_keys)
    IN  /\ Idle
        /\ call' = [fn |-> "_combine_vars", self |-> store,
                    obj_types |-> obj_types, var_keys |-> var_keys]
        /\ ret' = out.val
        /\ store' = out.st
        /\ UNCHANGED <<dirs, written, saves, op, cmp>>

\* self._combine_pars(varied, fixed)
CombinePars(varied, fixed) ==
    /\ Idle
    /\ call' = [fn |-> "_combine_pars", self |-> store,
                varied |-> varied, fixed |-> fixed]
    /\ ret' = combine_pars(store, varied, fixed)
    /\ UNCHANGED <<dirs, written, saves, op, store, cmp>>

\* the caller drops what the call returned (or catches what it raised)
Return ==
    /\ ~Idle
    /\ call' = NoCall
    /\ ret' = PyNone
    /\ UNCHANGED <<dirs, written, saves, op, store, cmp>>

InitArrange ==
    /\ dirs = Restrict(OldDirs, {})
    /\ written = {}
    /\ saves = 0
    /\ op = NoOp
    /\ store \in Results
    /\ call = NoCall
    /\ ret = PyNone
    /\ cmp = NoCmp

NextArrange ==
    \/ \E variables \in VariableArgs, measures \in MeasureArgs,
          parameters \in ParameterArgs, obj_types \in ObjTypeArgs,
          scenarios \in ScenarioArgs, index \in BOOLEAN :
          Arrange(variables, measures, parameters, obj_types, scenarios, index)
    \/ \E obj_types \in ObjTypeArgs, var_keys \in VariableArgs \ {NoSel} :
          CombineVars(obj_types, var_keys)
    \/ \E varied, fixed \in BOOLEAN : CombinePars(varied, fixed)
    \/ Return

SpecArrange == InitArrange /\ [][NextArrange]_vars

(***************************************************************************)
(* A == B on two results.                                                  *)
(***************************************************************************)
\* results, and results that lack some of the entries of another
Compared ==
    {Restrict(S, D) : S \in {StoreResult, OneRun}, D \in SUBSET DOMAIN OneRun}
    \cup Stores

\* A.__eq__(B)
Compare(A, B) ==
    /\ \E out \in eq(A, B) : cmp' = [done |-> TRUE, A |-> A, B |-> B, out |-> out]
    /\ UNCHANGED <<dirs, written, saves, op, store, call, ret>>

InitEq ==
    /\ dirs = Restrict(OldDirs, {})
    /\ written = {}
    /\ saves = 0
    /\ op = NoOp
    /\ store = NoStore
    /\ call = NoCall
    /\ ret = PyNone
    /\ cmp = NoCmp

NextEq == \E A, B \in Compared : Compare(A, B)

SpecEq == InitEq /\ [][NextEq]_vars

(***************************************************************************)
(* Saves without exp_id into a base path that starts empty, under names    *)
(* that contain one another, a name with a space and a name that ends     *)
(* like a directory.                                                       *)
(***************************************************************************)
InitDefault ==
    /\ dirs = Restrict(OldDirs, {})
    /\ written = {}
    /\ saves = 0
    /\ op = NoOp
    /\ store \in Stores
    /\ call = NoCall
    /\ ret = PyNone
    /\ cmp = NoCmp

NextDefault ==
    \E exp_name \in {None, Some(<<"a">>), Some(<<"a", "b">>),
                     Some(<<"a", " ", "b">>), Some(<<"a", "_", "1">>)} :
        Save(exp_name, None)

SpecDefault == InitDefault /\ [][NextDefault]_vars

(***************************************************************************)
(* Properties of save and load.                                            *)
(***************************************************************************)
SaveStep == saves' = saves + 1

LoadStep == op'.fn = "load" /\ saves' = saves

\* an entry of the kinds a result store holds: a table, a nested store of
\* such entries, or a scalar, mapping or list that json can write
RECURSIVE ClaimedEntry(_)
ClaimedEntry(x) ==
    \/ x.kind = "table"
    \/ x.kind = "store" /\ \A k \in DOMAIN x.v : ClaimedEntry(x.v[k])
    \/ x.kind \in {"int", "npint", "str", "list", "dict", "attrdict"} /\ Serializable(x)

\* the entry b reproduces the entry a: tables content-equal, nested stores
\* with the same keys and entries, other values value-equal
RECURSIVE SameEntry(_, _)
SameEntry(a, b) ==
    CASE a.kind = "table" -> equals(a, b)
      [] a.kind = "store" ->
            /\ b.kind = "store"
            /\ DOMAIN a.v = DOMAIN b.v
            /\ \A k \in DOMAIN a.v : SameEntry(a.v[k], b.v[k])
      [] OTHER -> b.kind \notin {"table", "store"} /\ ValueEq(a, b)

SameStore(S, L) ==
    /\ DOMAIN L = DOMAIN S
    /\ \A k \in DOMAIN S : SameEntry(S[k], L[k])

\* C1: loading a directory that a save of the store S created gives a store
\* with exactly the keys of S and entries equal to those of S.
C1_RoundTrip ==
    (/\ op.fn = "load" /\ op.err = ""
     /\ op.dir \in written
     /\ \A k \in DOMAIN store : ClaimedEntry(store[k]))
    => SameStore(store, op.S)

\* C2: a save with an explicit exp_id whose directory exists raises
\* FileExistsError and leaves every directory and file as it was.
C2_CollisionLeavesFiles ==
    [][(SaveStep /\ op'.given /\ op'.dir \in DOMAIN dirs)
        => (op'.err = "FileExistsError" /\ dirs' = dirs)]_vars

\* a second save with the name and id of the first one has raised
C2_Witness ==
    /\ op.fn = "save" /\ op.given /\ op.err = "FileExistsError"
    /\ op.dir \in written

\* the ids N of the directories named exactly name_N
ExactIds(name, names) ==
    LET rest(s) == SubSeq(s, Len(name) + 2, Len(s))
    IN  {IntOf(rest(s)).n :
            s \in {x \in names : /\ Len(x) > Len(name) + 1
                                 /\ SubSeq(x, 1, Len(name) + 1) = name \o <<"_">>
                                 /\ IntOf(rest(x)).ok}}

HighestId(name, names) ==
    IF ExactIds(name, names) = {} THEN 0 ELSE SetMax(ExactIds(name, names))

\* C3: without exp_id, save uses the highest id of the directories named
\* exactly name_N plus 1, and load uses that highest id and raises
\* FileNotFoundError exactly when there is no such directory.
C3_DefaultId ==
    [][/\ (SaveStep /\ ~op'.given)
            => /\ op'.err \notin {"ValueError", "FileExistsError"}
               /\ op'.id = HighestId(op'.name, DOMAIN dirs) + 1
       /\ (LoadStep /\ ~op'.given)
            => IF HighestId(op'.name, DOMAIN dirs) = 0
               THEN op'.err = "FileNotFoundError"
               ELSE op'.err = "" /\ op'.id = HighestId(op'.name, DOMAIN dirs)]_vars

\* C4: a file that fails to load adds no entry, and the store returned is
\* one that loading the directory without the failing files returns.
C4_FailingFileSkipped ==
    (op.fn = "load" /\ op.err = "")
    => op.S \in LoadResults(Restrict(dirs[op.dir], DOMAIN dirs[op.dir] \ op.warned))

\* C9: json is tried and a warning printed for a key exactly when its entry
\* is neither a table nor a nested store and json cannot encode it; a table
\* is written to <key>.csv without either; after a warning no <key>.json is
\* left, and every other entry has its files.
C9_JsonOnlyForOthers ==
    (op.fn = "save" /\ op.err = "")
    => \A key \in DOMAIN op.S :
          /\ (key \in op.tried /\ key \in op.warned)
                <=> (op.S[key].kind \notin {"table", "store"} /\ ~Serializable(op.S[key]))
          /\ op.S[key].kind = "table"
                => /\ key \notin op.tried /\ key \notin op.warned
                   /\ KeyFile(key, csv) \in DOMAIN dirs[op.dir]
          /\ key \in op.warned => KeyFile(key, json) \notin DOMAIN dirs[op.dir]
          /\ \A p \in EntryFiles(key, op.S[key]) : p[1] \in DOMAIN dirs[op.dir]

(***************************************************************************)
(* Properties of arrange.                                                  *)
(***************************************************************************)
\* the rows of the combined parameter table, before they are multiplied
BaseRows == pars_table(call.self, call.varied, call.fixed).rows

Iterations == call.self[kLog].v[kIterations].v

\* _combine_pars has multiplied a parameter table for k > 1 iterations
Multiplied ==
    /\ call.fn = "_combine_pars"
    /\ ret.kind = "table"
    /\ LogHas(call.self, kIterations)
    /\ Iterations > 1

OneCategoryCall ==
    /\ call.fn = "arrange"
    /\ kVariables \in DOMAIN call.self
    /\ call.self[kVariables].kind = "store"
    /\ Cardinality(DOMAIN call.self[kVariables].v) = 1
    /\ call.variables # NoSel
    /\ call.measures = NoSel
    /\ call.parameters = NoSel
    /\ ret.kind = "table"

TheCategory ==
    call.self[kVariables].v[CHOOSE k \in DOMAIN call.self[kVariables].v : TRUE]

\* C6: for variables of exactly one category, arrange(variables=V) returns
\* the table of that category (its index levels as columns unless index is
\* set), and only the columns in V when V names columns.
C6_SingleCategoryFiltered ==
    OneCategoryCall
    => /\ call.variables = All
            => ret = (IF call.index THEN TheCategory ELSE reset_index(TheCategory))
       /\ call.variables.sel = "names"
            => \A c \in Range(ret.cols) :
                  c \in Range(call.variables.names) \cup Range(TheCategory.index)

\* the index values of the rows of the returned table that carry the key c
\* in their first level, without that level
RowsFrom(c) ==
    LET rows == SelectSeq(ret.rows, LAMBDA r : r.ix[1] = c)
    IN  [i \in 1..Len(rows) |-> Tail(rows[i].ix)]

\* _combine_vars has returned a table from variables of several categories
Combined ==
    /\ call.fn = "_combine_vars"
    /\ ret.kind = "table"
    /\ call.self[kVariables].kind = "store"
    /\ Cardinality(DOMAIN call.self[kVariables].v) > 1

\* C7: in the table _combine_vars returns for several categories, the rows
\* of the category log.model_type carry obj_id = 0 in a level right before
\* the last one, the rows of every other category keep their index values,
\* and the first level, obj_type, holds the key of each row's category.
C7_ModelRowsGetObjId ==
    Combined
    => LET vs == call.self[kVariables].v
           model_type == call.self[kLog].v[kModelType].v
           n == Len(ret.index)
       IN  /\ ret.index[1] = obj_type
           /\ \A i \in 1..Len(ret.rows) : ret.rows[i].ix[1] \in DOMAIN vs
           /\ \A c \in DOMAIN vs \ {model_type} :
                 RowsFrom(c) \in {<<>>, [i \in 1..Len(vs[c].rows) |-> vs[c].rows[i].ix]}
           /\ RowsFrom(model_type) # <<>>
                 => /\ ret.index[n - 1] = obj_id
                    /\ ret.index[n] = vs[model_type].index[Len(vs[model_type].index)]
                    /\ RowsFrom(model_type) =
                          [i \in 1..Len(vs[model_type].rows) |->
                              LET ix == vs[model_type].rows[i].ix
                              IN  SubSeq(ix, 1, Len(ix) - 1) \o <<<<"0">>>>
                                  \o <<ix[Len(ix)]>>]

\* the table returned holds rows of the model and rows of another category
C7_Witness ==
    /\ Combined
    /\ RowsFrom(Model) # <<>>
    /\ RowsFrom(Agent) # <<>>

\* C10: no call of arrange, _combine_vars or _combine_pars changes the
\* result store: its tables keep their columns, index levels and rows.
C10_StoreNotChanged == [][store' = store]_vars

(***************************************************************************)
(* Properties of ==.                                                       *)
(***************************************************************************)
\* C8: A == B is true only for results with the same keys, whose entries
\* are equal under every key; so B == A is true too.
C8_EqualNeedsSameKeys ==
    (cmp.done /\ cmp.out = "True")
    => /\ DOMAIN cmp.A = DOMAIN cmp.B
       /\ SameStore(cmp.A, cmp.B)
       /\ "True" \in eq(cmp.B, cmp.A)

(***************************************************************************)
(* Properties of the default id.                                           *)
(***************************************************************************)
\* C11: from an empty base path, every save without exp_id creates a new
\* directory and raises no collision; its id is greater than the id of
\* every directory its name already has, and the directories and files
\* that were there stay as they were.
C11_DefaultIdsNeverCollide ==
    [][SaveStep
        => /\ op'.err \notin {"FileExistsError", "ValueError"}
           /\ op'.dir = DirName(op'.name, op'.id)
           /\ op'.dir \notin DOMAIN dirs
           /\ DOMAIN dirs' = DOMAIN dirs \cup {op'.dir}
           /\ \A d \in DOMAIN dirs : dirs'[d] = dirs[d]
           /\ op'.id > HighestId(op'.name, DOMAIN dirs)]_vars

\* a name was saved a second time, beside a directory of a longer name
C11_Witness ==
    /\ op.fn = "save" /\ ~op.given /\ op.err = ""
    /\ op.id > 1
    /\ DirName(op.name, 1) \in DOMAIN dirs
    /\ op.dir \in DOMAIN dirs
    /\ saves = MaxSaves

=============================================================================
